---- MODULE Spec2Model ----
(***************************************************************************)
(* Model of the GreenEye alert server (src/app.py): the in-memory current  *)
(* event LAST_EVENT, the users table, the PENDING_DESC set, and the four   *)
(* HTTP handlers home, current_event, alert and telegram_webhook.          *)
(*                                                                         *)
(* Encoding.  Python None is the string Null.  A coordinate is a record    *)
(* [k, v]: k = "num" with v in thousandths of a degree, k = "none" for     *)
(* None, k = "str" for a JSON string that float() rejects.  Distances and  *)
(* radii are in metres.  Button labels and message texts are named by      *)
(* ASCII tags.  The users table is a function over the chat ids with a     *)
(* reg flag per row; SELECT returns the registered rows in the order of    *)
(* ChatIdOf (SQL leaves the order open; no property below depends on it).  *)
(* Database statements are taken to succeed.                               *)
(*                                                                         *)
(* req, resp, sent, page and snap record the last request, its response,   *)
(* the calls of telegram_send it made, the buckets of the dashboard and    *)
(* the snapshot of /current_event.                                         *)
(*                                                                         *)
(* Specifications.  Spec and SpecChat run each handler to completion, one  *)
(* request after the other; they differ in the requests they draw (Spec:   *)
(* every kind of sensor report; SpecChat: every chat command).             *)
(* SpecNoToken is Spec on a server started without BOT_TOKEN.              *)
(* SpecThreads runs a close, an open and a reader statement by statement.  *)
(***************************************************************************)
EXTENDS Integers, Sequences, FiniteSets, TLC

VARIABLES LAST_EVENT, users, PENDING_DESC, BOT_TOKEN, SHARED_SECRET,
          req, resp, sent, page, snap, pc

vars == <<LAST_EVENT, users, PENDING_DESC, BOT_TOKEN, SHARED_SECRET,
          req, resp, sent, page, snap, pc>>

core == <<LAST_EVENT, users, PENDING_DESC>>

\* ------------------------------------------------------------------ bounds
NumUsers == 2
\* the sends of one request that the network can fail: the first MaxFailAt
MaxFailAt == 1

\* ------------------------------------------------------------------ values
Null == "null"

ChatIdOf == <<"1001", "1002", "1003", "1004">>
ChatIds == {ChatIdOf[i] : i \in 1..NumUsers}

NoneC == [k |-> "none", v |-> 0]
StrC == [k |-> "str", v |-> 0]
Num(n) == [k |-> "num", v |-> n]

\* latitudes a user can share, longitudes, and the origins a sensor can send
UserLats == {31000}
Lon0 == Num(34800)
Origins == { <<NoneC, NoneC>>, <<Num(31000), Lon0>>, <<Num(31400), Lon0>>,
             <<Num(32200), Lon0>>, <<Num(31000), NoneC>>, <<StrC, Lon0>> }

\* ---------------------------------------------------------------- constants
\* the default radii of the environment, in metres
DANGER_RADIUS_KM == 1000
SMOKE_RADIUS_KM == 200
QUAKE_LIGHT_RADIUS_KM == 35000
QUAKE_STRONG_RADIUS_KM == 120000
TERROR_RADIUS_KM == 10000

HAZARD_TYPES == {"smoke", "quake", "terror"}

\* button labels of main_menu_keyboard
BTN_START == "BTN_START"
BTN_HELP == "BTN_HELP"
BTN_SEND_LOCATION == "BTN_SEND_LOCATION"
BTN_UNUSUAL_EVENT == "BTN_UNUSUAL_EVENT"
BTN_EVENT_DESC == "BTN_EVENT_DESC"
BTN_END_EVENT == "BTN_END_EVENT"
DASH == "DASH"

\* --------------------------------------------------------------- LAST_EVENT
EventInit ==
    [active |-> FALSE, type |-> Null, level |-> Null, lat |-> NoneC, lon |-> NoneC,
     ts |-> Null, device_id |-> Null, raw |-> "{}",
     reported_by |-> Null, reported_by_name |-> Null, reported_ts |-> Null,
     description |-> Null]

\* the i-th assignment of reset_event, in source order
reset_step(ev, i) ==
    CASE i = 1 -> [ev EXCEPT !.active = FALSE]
      [] i = 2 -> [ev EXCEPT !.type = Null]
      [] i = 3 -> [ev EXCEPT !.level = Null]
      [] i = 4 -> [ev EXCEPT !.lat = NoneC]
      [] i = 5 -> [ev EXCEPT !.lon = NoneC]
      [] i = 6 -> [ev EXCEPT !.ts = Null]
      [] i = 7 -> [ev EXCEPT !.device_id = Null]
      [] i = 8 -> [ev EXCEPT !.raw = "{}"]
      [] i = 9 -> [ev EXCEPT !.reported_by = Null]
      [] i = 10 -> [ev EXCEPT !.reported_by_name = Null]
      [] i = 11 -> [ev EXCEPT !.reported_ts = Null]
      [] i = 12 -> [ev EXCEPT !.description = Null]

RECURSIVE reset_upto(_, _)
reset_upto(ev, n) == IF n = 0 THEN ev ELSE reset_step(reset_upto(ev, n - 1), n)

\* reset_event that stops before the coordinates
reset_event_keeps_origin(ev) == reset_upto(ev, 3)

reset_event(ev) == reset_upto(ev, 12)

\* current_radius_km with the level of a quake ignored
current_radius_km_any_quake_strong(ev) ==
    IF ~ev.active THEN 0
    ELSE IF ev.type = "smoke" THEN SMOKE_RADIUS_KM
    ELSE IF ev.type = "quake" THEN QUAKE_STRONG_RADIUS_KM
    ELSE IF ev.type = "terror" THEN TERROR_RADIUS_KM
    ELSE DANGER_RADIUS_KM

current_radius_km(ev) ==
    IF ~ev.active THEN 0
    ELSE IF ev.type = "smoke" THEN SMOKE_RADIUS_KM
    ELSE IF ev.type = "quake"
         THEN (IF ev.level = "strong" THEN QUAKE_STRONG_RADIUS_KM
               ELSE QUAKE_LIGHT_RADIUS_KM)
    ELSE IF ev.type = "terror" THEN TERROR_RADIUS_KM
    ELSE DANGER_RADIUS_KM

\* float(x): the value of a number, an exception for None or a non-numeric string
FloatOk(c) == c.k = "num"

Abs(n) == IF n < 0 THEN -n ELSE n

\* Great-circle distance in metres.  Every numeric longitude of the model is
\* the same meridian, where the haversine formula reduces to R * |dlat| with
\* R = 6371 km: 111195 m per degree of latitude.
haversine_km(lat1, lon1, lat2, lon2) ==
    (Abs(lat2 - lat1) * 111195) \div 1000

\* -------------------------------------------------------------------- users
NoUser == [reg |-> FALSE, name |-> Null, last_lat |-> NoneC, last_lon |-> NoneC,
           last_loc_ts |-> Null, pending_loc |-> 0]

Registered(us) == {c \in ChatIds : us[c].reg}

user_exists(us, chat_id) == us[chat_id].reg

\* upsert_user whose new row starts with pending_loc = 1
upsert_user_pending(us, chat_id, name) ==
    IF us[chat_id].reg
    THEN [us EXCEPT ![chat_id].name = name]
    ELSE [us EXCEPT ![chat_id] = [NoUser EXCEPT !.reg = TRUE, !.name = name,
                                                !.pending_loc = 1]]

upsert_user(us, chat_id, name) ==
    IF us[chat_id].reg
    THEN [us EXCEPT ![chat_id].name = name]
    ELSE [us EXCEPT ![chat_id] = [NoUser EXCEPT !.reg = TRUE, !.name = name]]

\* set_all_pending that passes over the users with a stored location
set_all_pending_unlocated(us, pending) ==
    [c \in ChatIds |-> IF us[c].reg /\ us[c].last_lat.k = "none"
                       THEN [us[c] EXCEPT !.pending_loc = pending]
                       ELSE us[c]]

set_all_pending(us, pending) ==
    [c \in ChatIds |-> IF us[c].reg THEN [us[c] EXCEPT !.pending_loc = pending]
                       ELSE us[c]]

update_location(us, chat_id, lat, lon) ==
    IF us[chat_id].reg
    THEN [us EXCEPT ![chat_id].last_lat = Num(lat), ![chat_id].last_lon = Num(lon),
                    ![chat_id].last_loc_ts = "t", ![chat_id].pending_loc = 0]
    ELSE us

\* SELECT ... FROM users: the registered chat ids, in table order
RECURSIVE SelectFrom(_, _)
SelectFrom(us, i) ==
    IF i > NumUsers THEN <<>>
    ELSE (IF us[ChatIdOf[i]].reg THEN <<ChatIdOf[i]>> ELSE <<>>) \o SelectFrom(us, i + 1)

SelectUsers(us) == SelectFrom(us, 1)

\* ----------------------------------------------------------------- Telegram
\* What the network does to the sends of one request: the at-th call of
\* requests.post raises (connection error, timeout); at = 0 is a request
\* whose calls all return.  Whether a returned response is ok is not
\* modelled: every caller drops the pair telegram_send returns.
NoFail == [at |-> 0]
Failures(sends) ==
    {NoFail} \cup [at : 1..(IF sends < MaxFailAt THEN sends ELSE MaxFailAt)]

\* telegram_send without the test of BOT_TOKEN: the call is made anyway
telegram_send_always_posts(token, i, fail) ==
    IF fail.at = i THEN "raised" ELSE "returned"

\* telegram_send: "no_token" when BOT_TOKEN is empty (returns False without a
\* call), else the outcome of the i-th requests.post of this request
telegram_send(token, i, fail) ==
    IF token = "" THEN "no_token"
    ELSE IF fail.at = i THEN "raised"
    ELSE "returned"

Msg(chat_id, kind, extra) == [to |-> chat_id, msg |-> kind, extra |-> extra]

RECURSIVE MsgsTo(_, _)
MsgsTo(chats, kind) ==
    IF chats = <<>> THEN <<>>
    ELSE <<Msg(Head(chats), kind, "")>> \o MsgsTo(Tail(chats), kind)

\* the calls of telegram_send a broadcast makes, in order
telegram_broadcast(us, kind) == MsgsTo(SelectUsers(us), kind)

telegram_broadcast_request_location(us) == MsgsTo(SelectUsers(us), "request_location")

\* Runs the telegram_send calls of a request in order; an exception raised
\* by one call ends the run, nothing catches it before the handler does.
RECURSIVE Deliver(_, _, _, _)
Deliver(todo, token, fail, i) ==
    IF todo = <<>> THEN <<>>
    ELSE LET r == telegram_send(token, i, fail)
             e == [to |-> Head(todo).to, msg |-> Head(todo).msg,
                   extra |-> Head(todo).extra, result |-> r]
         IN IF r = "raised" THEN <<e>>
            ELSE <<e>> \o Deliver(Tail(todo), token, fail, i + 1)

Raised(log) == \E i \in 1..Len(log) : log[i].result = "raised"

\* ---------------------------------------------------------------- dashboard
\* one iteration of the loop of home(): the bucket of a row, "raise" when
\* float() rejects a stored origin
classify_row(u, ev, radius_km) ==
    IF u.pending_loc = 1 THEN [bucket |-> "pending", dist |-> NoneC]
    ELSE IF u.last_lat.k = "none" \/ u.last_lon.k = "none" \/ ~ev.active
            \/ ev.lat.k = "none" \/ ev.lon.k = "none"
         THEN [bucket |-> "safe", dist |-> NoneC]
    ELSE IF ~FloatOk(ev.lat) \/ ~FloatOk(ev.lon)
         THEN [bucket |-> "raise", dist |-> NoneC]
    ELSE LET dist == haversine_km(u.last_lat.v, u.last_lon.v, ev.lat.v, ev.lon.v)
         IN [bucket |-> IF dist <= radius_km THEN "danger" ELSE "safe",
             dist |-> Num(dist)]

NoPage == [ok |-> FALSE, danger |-> <<>>, safe |-> <<>>, pending |-> <<>>]

RECURSIVE HomeLoop(_, _, _, _)
HomeLoop(rows, us, ev, acc) ==
    IF rows = <<>> THEN acc
    ELSE LET c == Head(rows)
             r == classify_row(us[c], ev, current_radius_km(ev))
             e == [u |-> c, dist |-> r.dist]
         IN IF r.bucket = "raise" THEN NoPage
            ELSE HomeLoop(Tail(rows), us, ev,
                   IF r.bucket = "pending" THEN [acc EXCEPT !.pending = Append(@, e)]
                   ELSE IF r.bucket = "danger" THEN [acc EXCEPT !.danger = Append(@, e)]
                   ELSE [acc EXCEPT !.safe = Append(@, e)])

home_page(us, ev) == HomeLoop(SelectUsers(us), us, ev, [NoPage EXCEPT !.ok = TRUE])

\* where each request thread of SpecThreads stands: 0 is between requests
Idle == [closer |-> 0, opener |-> 0, reader |-> 0]

NoReq == [op |-> "none", secret |-> "", type |-> Null, shape |-> "", chat |-> Null,
          raw |-> "", text |-> "", loc |-> NoneC]
NoResp == [status |-> 0, ok |-> FALSE, body |-> ""]
NoSnap == [taken |-> FALSE, active |-> FALSE, type |-> Null, level |-> Null,
           ts |-> Null, device_id |-> Null, lat |-> NoneC, lon |-> NoneC,
           description |-> Null, radius_km |-> 0]

home ==
    /\ page' = home_page(users, LAST_EVENT)
    /\ req' = [NoReq EXCEPT !.op = "home"]
    /\ resp' = IF page'.ok THEN [status |-> 200, ok |-> TRUE, body |-> "html"]
               ELSE [status |-> 500, ok |-> FALSE, body |-> "error"]
    /\ sent' = <<>>
    /\ snap' = NoSnap
    /\ UNCHANGED <<core, BOT_TOKEN, SHARED_SECRET, pc>>

current_event ==
    /\ snap' = [taken |-> TRUE, active |-> LAST_EVENT.active, type |-> LAST_EVENT.type,
                level |-> LAST_EVENT.level, ts |-> LAST_EVENT.ts,
                device_id |-> LAST_EVENT.device_id,
                lat |-> LAST_EVENT.lat, lon |-> LAST_EVENT.lon,
                description |-> LAST_EVENT.description,
                radius_km |-> current_radius_km(LAST_EVENT)]
    /\ req' = [NoReq EXCEPT !.op = "current_event"]
    /\ resp' = [status |-> 200, ok |-> TRUE, body |-> "json"]
    /\ sent' = <<>>
    /\ page' = NoPage
    /\ UNCHANGED <<core, BOT_TOKEN, SHARED_SECRET, pc>>

\* ------------------------------------------------------------- POST /alert
Body(type, level, status, message, origin) ==
    [type |-> type, level |-> level, status |-> status, message |-> message,
     origin |-> origin, device_id |-> Null, device |-> Null]

\* the reports a sensor sends: each type, the levels that matter to the
\* radius, the legacy status/message format, the empty (or malformed) body
AlertBodies ==
    {Body(t, Null, Null, Null, o) : t \in {"smoke", "quake", "terror", "flood"}, o \in Origins}
    \cup {Body("quake", "strong", Null, Null, o) : o \in Origins}
    \cup {Body(Null, Null, "quake", "light", o) : o \in Origins}
    \cup {Body(Null, Null, Null, Null, o) : o \in Origins}
    \cup {Body("normal", Null, Null, Null, <<NoneC, NoneC>>),
          Body(Null, Null, "normal", Null, <<NoneC, NoneC>>)}

\* the event type and level of a report, with the fallback to status/message
alert_type(data) ==
    IF data.type # Null THEN data.type
    ELSE IF data.status \in {"smoke", "quake", "normal"} THEN data.status
    ELSE "unknown"

alert_level(data) ==
    IF data.type # Null THEN data.level
    ELSE IF data.message \in {"light", "strong"} THEN data.message
    ELSE Null

\* the i-th assignment to LAST_EVENT of an opening report, in source order
alert_open_step(ev, data, i) ==
    CASE i = 1 -> [ev EXCEPT !.active = TRUE]
      [] i = 2 -> [ev EXCEPT !.type = alert_type(data)]
      [] i = 3 -> [ev EXCEPT !.level = alert_level(data)]
      [] i = 4 -> [ev EXCEPT !.lat = data.origin[1]]
      [] i = 5 -> [ev EXCEPT !.lon = data.origin[2]]
      [] i = 6 -> [ev EXCEPT !.device_id = IF data.device_id # Null THEN data.device_id
                                           ELSE IF data.device # Null THEN data.device
                                           ELSE "esp32"]
      [] i = 7 -> [ev EXCEPT !.ts = "t"]
      [] i = 8 -> [ev EXCEPT !.raw = "data"]
      [] i = 9 -> [ev EXCEPT !.reported_by = "ESP32"]
      [] i = 10 -> [ev EXCEPT !.reported_by_name = "ESP32"]
      [] i = 11 -> [ev EXCEPT !.reported_ts = "t"]

\* the assignments of an opening report as one update (description is not
\* among them)
alert_open(ev, data) ==
    [ev EXCEPT !.active = TRUE, !.type = alert_type(data), !.level = alert_level(data),
               !.lat = data.origin[1], !.lon = data.origin[2],
               !.device_id = IF data.device_id # Null THEN data.device_id
                             ELSE IF data.device # Null THEN data.device
                             ELSE "esp32",
               !.ts = "t", !.raw = "data",
               !.reported_by = "ESP32", !.reported_by_name = "ESP32",
               !.reported_ts = "t"]

\* alert_authorized that only asks for some X-SECRET header
alert_authorized_any_header(secret, header) == secret = "" \/ header # ""

alert_authorized(secret, header) == secret = "" \/ header = secret

\* the state and the sends of an authorized report
alert_result(ev, us, data) ==
    IF alert_type(data) = "normal"
    THEN LET us1 == set_all_pending(us, 0)
         IN [ev |-> reset_event(ev), us |-> us1,
             todo |-> telegram_broadcast(us1, "event_ended"), body |-> "cleared"]
    ELSE IF alert_type(data) \in HAZARD_TYPES
    THEN LET us1 == set_all_pending(us, 1)
         IN [ev |-> alert_open(ev, data), us |-> us1,
             todo |-> telegram_broadcast_request_location(us1), body |-> "saved"]
    ELSE LET us1 == set_all_pending(us, 0)
         IN [ev |-> alert_open(ev, data), us |-> us1,
             todo |-> telegram_broadcast(us1, "system_update"), body |-> "saved"]

\* the requests to /alert: every report with the right header, and a report
\* of each kind with a wrong or a missing header
AlertRequests ==
    [header : {"s3cret"}, data : AlertBodies]
    \cup [header : {"", "wrong"},
          data : {Body("normal", Null, Null, Null, <<NoneC, NoneC>>),
                  Body("smoke", Null, Null, Null, <<Num(31000), Lon0>>)}]

alert_on(requests) ==
    \E rq \in requests :
     LET header == rq.header
         data == rq.data
     IN
      /\ req' = [NoReq EXCEPT !.op = "alert", !.secret = header, !.type = alert_type(data)]
      /\ page' = NoPage
      /\ snap' = NoSnap
      /\ UNCHANGED <<PENDING_DESC, BOT_TOKEN, SHARED_SECRET, pc>>
      /\ IF ~alert_authorized(SHARED_SECRET, header)
         THEN /\ resp' = [status |-> 401, ok |-> FALSE, body |-> "unauthorized"]
              /\ sent' = <<>>
              /\ UNCHANGED <<LAST_EVENT, users>>
         ELSE LET r == alert_result(LAST_EVENT, users, data)
              IN \E fail \in Failures(Len(r.todo)) :
                   /\ LAST_EVENT' = r.ev
                   /\ users' = r.us
                   /\ sent' = Deliver(r.todo, BOT_TOKEN, fail, 1)
                   /\ resp' = IF Raised(sent')
                              THEN [status |-> 500, ok |-> FALSE, body |-> "error"]
                              ELSE [status |-> 200, ok |-> TRUE, body |-> r.body]

\* ---------------------------------------------------------- POST /telegram
\* the texts a chat sends: none, the commands that change the state, the
\* commands that are only answered, a text that is no command, and the
\* command that opens the description dialogue
StateTexts == {"", "Start", BTN_END_EVENT, BTN_UNUSUAL_EVENT}
ReplyTexts == {"/help", BTN_SEND_LOCATION, "hello"}
RawTexts == StateTexts \cup ReplyTexts \cup {BTN_EVENT_DESC}
FirstNames == {"Dana"}
\* the location of a message: absent, malformed (float() or the key lookup
\* raises), or a latitude of UserLats on the meridian Lon0
LocInputs == {NoneC, StrC} \cup {Num(l) : l \in UserLats}

normalize_command(text) ==
    IF text \in {"/start", "start", "Start", BTN_START} THEN "/start"
    ELSE IF text \in {"/help", "help", "Help", BTN_HELP} THEN "/help"
    ELSE text

display_name(first) == IF first = "" THEN "Unknown" ELSE first

report_unusual_event(ev, chat_id, name) ==
    [ev EXCEPT !.active = TRUE, !.type = "terror", !.level = "reported",
               !.lat = NoneC, !.lon = NoneC, !.ts = "t", !.device_id = "telegram",
               !.raw = "telegram_button", !.reported_by = chat_id,
               !.reported_by_name = name, !.reported_ts = "t", !.description = DASH]

WR(ev, us, pd, todo, exc) == [ev |-> ev, us |-> us, pd |-> pd, todo |-> todo, exc |-> exc]

\* is_origin_share without the comparison with the reporter
is_origin_share_any_sender(ev, chat_id) ==
    ev.active /\ ev.type = "terror" /\ ev.lat.k = "none"

\* the test that makes a location share the origin of the event: only the
\* latitude is asked for None
is_origin_share(ev, chat_id) ==
    ev.active /\ ev.type = "terror" /\ ev.lat.k = "none" /\ chat_id = ev.reported_by

\* safety_extra that appends the smoke text for every type but quake
safety_extra_smoke_by_default(ev) ==
    IF ev.type = "quake" THEN "QUAKE_SAFETY_TEXT" ELSE "SMOKE_SAFETY_TEXT"

\* the safety text appended to the message of a sender inside the radius
safety_extra(ev) ==
    IF ev.type = "quake" THEN "QUAKE_SAFETY_TEXT"
    ELSE IF ev.type = "smoke" THEN "SMOKE_SAFETY_TEXT"
    ELSE ""

\* the branch of telegram_webhook for a message that carries a location
webhook_location(ev, us, pd, chat_id, loc) ==
    IF ~FloatOk(loc) THEN WR(ev, us, pd, <<>>, TRUE)
    ELSE
    LET lat == loc.v
        lon == Lon0.v
        us2 == update_location(us, chat_id, lat, lon)
    IN IF is_origin_share(ev, chat_id)
       THEN WR([ev EXCEPT !.lat = Num(lat), !.lon = Num(lon)], us2, pd,
               telegram_broadcast_request_location(us2)
                 \o <<Msg(chat_id, "origin_received", "")>>, FALSE)
       ELSE IF ~ev.active
       THEN WR(ev, us2, pd, <<Msg(chat_id, "no_active_event", "")>>, FALSE)
       ELSE IF ev.lat.k = "none" \/ ev.lon.k = "none"
       THEN WR(ev, us2, pd, <<Msg(chat_id, "no_origin", "")>>, FALSE)
       ELSE IF ~FloatOk(ev.lat) \/ ~FloatOk(ev.lon)
       THEN WR(ev, us2, pd, <<>>, TRUE)
       ELSE LET dist == haversine_km(lat, lon, ev.lat.v, ev.lon.v)
                radius_km == current_radius_km(ev)
                extra == safety_extra(ev)
            IN IF dist <= radius_km
               THEN WR(ev, us2, pd, <<Msg(chat_id, "danger", extra)>>, FALSE)
               ELSE WR(ev, us2, pd, <<Msg(chat_id, "outside", "")>>, FALSE)

\* the body of the try block for an update that carries a message
webhook_message(ev, us, pd, chat_id, name, text_raw, loc) ==
    LET text == normalize_command(text_raw)
        us1 == IF text # "" THEN upsert_user(us, chat_id, name) ELSE us
    IN IF chat_id \in pd /\ text # ""
       THEN WR([ev EXCEPT !.description = text], us1, pd \ {chat_id},
               <<Msg(chat_id, "description_saved", "")>>, FALSE)
       ELSE IF text = "/start"
       THEN LET first_time == ~user_exists(us1, chat_id)
            IN WR(ev, upsert_user(us1, chat_id, name), pd,
                  <<Msg(chat_id, IF first_time THEN "hello_first" ELSE "hello_again", "")>>,
                  FALSE)
       ELSE IF text = "/help"
       THEN WR(ev, us1, pd, <<Msg(chat_id, "help", "")>>, FALSE)
       ELSE IF text = BTN_END_EVENT
       THEN LET us2 == set_all_pending(us1, 0)
            IN WR(reset_event(ev), us2, pd,
                  telegram_broadcast(us2, "closed_by_user")
                    \o telegram_broadcast(us2, "back_to_normal"), FALSE)
       ELSE IF text = BTN_EVENT_DESC
       THEN WR(ev, us1, pd \cup {chat_id}, <<Msg(chat_id, "write_description", "")>>, FALSE)
       ELSE IF text = BTN_UNUSUAL_EVENT
       THEN WR(report_unusual_event(ev, chat_id, name), set_all_pending(us1, 1), pd,
               <<Msg(chat_id, "report_received", "")>>, FALSE)
       ELSE IF text = BTN_SEND_LOCATION /\ loc.k = "none"
       THEN WR(ev, us1, pd, <<Msg(chat_id, "how_to_send_location", "")>>, FALSE)
       ELSE IF loc.k # "none"
       THEN webhook_location(ev, us1, pd, chat_id, loc)
       ELSE IF text # ""
       THEN WR(ev, us1, pd, <<Msg(chat_id, "not_recognized", "")>>, FALSE)
       ELSE WR(ev, us1, pd, <<>>, FALSE)

\* the whole handler: an update without a message is answered at once, an
\* update that is no JSON object raises at update.get
webhook_result(ev, us, pd, shape, chat_id, name, text_raw, loc) ==
    IF shape = "no_message" THEN WR(ev, us, pd, <<>>, FALSE)
    ELSE IF shape = "not_object" THEN WR(ev, us, pd, <<>>, TRUE)
    ELSE webhook_message(ev, us, pd, chat_id, name, text_raw, loc)

\* the response of telegram_webhook: the except clause turns every exception
\* into 200 with ok = false
\* webhook_response without the except clause: the exception reaches Flask
webhook_response_uncaught(failed) ==
    IF failed THEN [status |-> 500, ok |-> FALSE, body |-> "error"]
    ELSE [status |-> 200, ok |-> TRUE, body |-> "ok"]

webhook_response(failed) ==
    IF failed THEN [status |-> 200, ok |-> FALSE, body |-> "error"]
    ELSE [status |-> 200, ok |-> TRUE, body |-> "ok"]

\* a message carries a text or a location (or neither); the label of the
\* location button can also arrive together with a location
WebhookInputs(texts) ==
    [shape : {"no_message", "not_object"}, chat : {Null}, first : {""},
     text : {""}, loc : {NoneC}]
    \cup [shape : {"message"}, chat : ChatIds, first : FirstNames,
          text : texts, loc : {NoneC}]
    \cup [shape : {"message"}, chat : ChatIds, first : FirstNames,
          text : {""} \cup (texts \cap {BTN_SEND_LOCATION}), loc : LocInputs \ {NoneC}]

telegram_on(inputs) ==
    \E in \in inputs :
      LET r == webhook_result(LAST_EVENT, users, PENDING_DESC, in.shape, in.chat,
                              display_name(in.first), in.text, in.loc)
      IN \E fail \in Failures(Len(r.todo)) :
           /\ req' = [NoReq EXCEPT !.op = "telegram", !.shape = in.shape, !.chat = in.chat,
                                   !.raw = in.text,
                                   !.text = normalize_command(in.text), !.loc = in.loc]
           /\ LAST_EVENT' = r.ev
           /\ users' = r.us
           /\ PENDING_DESC' = r.pd
           /\ sent' = Deliver(r.todo, BOT_TOKEN, fail, 1)
           /\ resp' = webhook_response(r.exc \/ Raised(sent'))
           /\ page' = NoPage
           /\ snap' = NoSnap
           /\ UNCHANGED <<BOT_TOKEN, SHARED_SECRET, pc>>

\* --------------------------------------------------------- specification
Init ==
    /\ LAST_EVENT = EventInit
    /\ users = [c \in ChatIds |-> NoUser]
    /\ PENDING_DESC = {}
    /\ BOT_TOKEN = "token"
    /\ SHARED_SECRET = "s3cret"
    /\ req = NoReq
    /\ resp = NoResp
    /\ sent = <<>>
    /\ page = NoPage
    /\ snap = NoSnap
    /\ pc = Idle

\* Spec: every kind of sensor report, location shares, and the chat commands
\* that change the event or the users.
alert == alert_on(AlertRequests)

StateInputs == WebhookInputs(StateTexts)

telegram_webhook == telegram_on(StateInputs)

Next == home \/ current_event \/ alert \/ telegram_webhook

Spec == Init /\ [][Next]_vars

\* SpecChat: every chat command, the description dialogue included, and one
\* sensor report of each kind.
ChatAlertRequests ==
    [header : {"s3cret"},
     data : {Body("smoke", Null, Null, Null, <<Num(31000), Lon0>>),
             Body("quake", "strong", Null, Null, <<StrC, Lon0>>),
             Body(Null, Null, Null, Null, <<NoneC, NoneC>>),
             Body("normal", Null, Null, Null, <<NoneC, NoneC>>)}]
    \cup [header : {"wrong"}, data : {Body("normal", Null, Null, Null, <<NoneC, NoneC>>)}]

alert_chat == alert_on(ChatAlertRequests)

ChatInputs == WebhookInputs(RawTexts)

telegram_chat == telegram_on(ChatInputs)

NextChat == home \/ current_event \/ alert_chat \/ telegram_chat

SpecChat == Init /\ [][NextChat]_vars

\* SpecNoToken: the requests of Spec on a server started without BOT_TOKEN.
InitNoToken ==
    /\ LAST_EVENT = EventInit
    /\ users = [c \in ChatIds |-> NoUser]
    /\ PENDING_DESC = {}
    /\ BOT_TOKEN = ""
    /\ SHARED_SECRET = "s3cret"
    /\ req = NoReq
    /\ resp = NoResp
    /\ sent = <<>>
    /\ page = NoPage
    /\ snap = NoSnap
    /\ pc = Idle

SpecNoToken == InitNoToken /\ [][Next]_vars

\* ------------------------------------------------------------ SpecThreads
\* The handlers run on the threads of the server and no lock guards
\* LAST_EVENT: a thread switch can fall between any two statements.  A
\* closing request (reset_event, then set_all_pending(0)), an opening sensor
\* report (the assignments of alert, then set_all_pending(1)) and a reader
\* (current_event, one LAST_EVENT.get per step) run statement by statement,
\* one request each, over an event that is closed or open at the start.
ThreadReport == Body("smoke", Null, Null, Null, <<Num(31000), Lon0>>)

closer_step ==
    /\ pc.closer <= 12
    /\ IF pc.closer < 12
       THEN /\ LAST_EVENT' = reset_step(LAST_EVENT, pc.closer + 1)
            /\ pc' = [pc EXCEPT !.closer = @ + 1]
            /\ UNCHANGED users
       ELSE /\ users' = set_all_pending(users, 0)
            /\ pc' = [pc EXCEPT !.closer = 13]
            /\ UNCHANGED LAST_EVENT
    /\ UNCHANGED <<PENDING_DESC, BOT_TOKEN, SHARED_SECRET, req, resp, sent, page, snap>>

opener_step ==
    /\ pc.opener <= 11
    /\ IF pc.opener < 11
       THEN /\ LAST_EVENT' = alert_open_step(LAST_EVENT, ThreadReport, pc.opener + 1)
            /\ pc' = [pc EXCEPT !.opener = @ + 1]
            /\ UNCHANGED users
       ELSE /\ users' = set_all_pending(users, 1)
            /\ pc' = [pc EXCEPT !.opener = 12]
            /\ UNCHANGED LAST_EVENT
    /\ UNCHANGED <<PENDING_DESC, BOT_TOKEN, SHARED_SECRET, req, resp, sent, page, snap>>

\* the i-th read of current_event, in the order of the dict it builds
read_step(sn, ev, i) ==
    CASE i = 1 -> [NoSnap EXCEPT !.active = ev.active]
      [] i = 2 -> [sn EXCEPT !.type = ev.type]
      [] i = 3 -> [sn EXCEPT !.level = ev.level]
      [] i = 4 -> [sn EXCEPT !.ts = ev.ts]
      [] i = 5 -> [sn EXCEPT !.device_id = ev.device_id]
      [] i = 6 -> [sn EXCEPT !.lat = ev.lat]
      [] i = 7 -> [sn EXCEPT !.lon = ev.lon]
      [] i = 8 -> [sn EXCEPT !.description = ev.description]
      [] i = 9 -> [sn EXCEPT !.radius_km = current_radius_km(ev), !.taken = TRUE]

reader_step ==
    /\ pc.reader <= 8
    /\ snap' = read_step(snap, LAST_EVENT, pc.reader + 1)
    /\ pc' = [pc EXCEPT !.reader = @ + 1]
    /\ UNCHANGED <<core, BOT_TOKEN, SHARED_SECRET, req, resp, sent, page>>

ThreadsDone == pc.closer = 13 /\ pc.opener = 12 /\ pc.reader = 9

InitThreads ==
    /\ \/ /\ LAST_EVENT = EventInit
          /\ users = [c \in ChatIds |-> [NoUser EXCEPT !.reg = TRUE, !.name = "Dana"]]
       \/ /\ LAST_EVENT = alert_open(EventInit, Body("quake", "strong", Null, Null,
                                                    <<Num(31400), Lon0>>))
          /\ users = [c \in ChatIds |-> [NoUser EXCEPT !.reg = TRUE, !.name = "Dana",
                                                       !.pending_loc = 1]]
    /\ PENDING_DESC = {}
    /\ BOT_TOKEN = "token"
    /\ SHARED_SECRET = "s3cret"
    /\ req = NoReq
    /\ resp = NoResp
    /\ sent = <<>>
    /\ page = NoPage
    /\ snap = NoSnap
    /\ pc = Idle

NextThreads == closer_step \/ opener_step \/ reader_step

SpecThreads == InitThreads /\ [][NextThreads]_vars

\* ================================================================= claims
Occ(bucket, c) == Cardinality({i \in 1..Len(bucket) : bucket[i].u = c})

DistOf(bucket, c) == (CHOOSE i \in 1..Len(bucket) : bucket[i].u = c)

\* C1: on the dashboard, every registered user whose pending flag is set is
\* in the pending bucket and in neither the danger nor the safe bucket,
\* whatever the event and the stored location, and every registered user is
\* in exactly one of the three buckets.
C1_PendingFirst ==
    req.op = "home" =>
      \A c \in Registered(users) :
        /\ Occ(page.pending, c) + Occ(page.danger, c) + Occ(page.safe, c) = 1
        /\ users[c].pending_loc = 1 => Occ(page.pending, c) = 1

\* C2: on the dashboard, a user who is not pending is in the danger bucket
\* exactly when the event is active, the event has both origin coordinates,
\* the user has both stored coordinates and the distance between them is at
\* most the radius of the event; otherwise the user is in the safe bucket,
\* with no distance when the event is inactive, the user has no location or
\* the event has no origin.
C2_InDanger(c) ==
    /\ LAST_EVENT.active
    /\ LAST_EVENT.lat.k # "none" /\ LAST_EVENT.lon.k # "none"
    /\ users[c].last_lat.k # "none" /\ users[c].last_lon.k # "none"
    /\ LAST_EVENT.lat.k = "num" /\ LAST_EVENT.lon.k = "num"
    /\ haversine_km(users[c].last_lat.v, users[c].last_lon.v,
                    LAST_EVENT.lat.v, LAST_EVENT.lon.v) <= current_radius_km(LAST_EVENT)

C2_NoDistance(c) ==
    \/ ~LAST_EVENT.active
    \/ users[c].last_lat.k = "none" \/ users[c].last_lon.k = "none"
    \/ LAST_EVENT.lat.k = "none" \/ LAST_EVENT.lon.k = "none"

C2_DangerIffWithinRadius ==
    req.op = "home" =>
      \A c \in Registered(users) :
        users[c].pending_loc = 0 =>
          /\ Occ(page.danger, c) = (IF C2_InDanger(c) THEN 1 ELSE 0)
          /\ Occ(page.safe, c) = (IF C2_InDanger(c) THEN 0 ELSE 1)
          /\ (C2_NoDistance(c) /\ Occ(page.safe, c) = 1)
               => page.safe[DistOf(page.safe, c)].dist = NoneC

\* C3: the radius the snapshot endpoint reports is 0 when no event is
\* active; for an active event it is the smoke radius for type smoke, the
\* strong-quake radius for type quake with level strong, the light-quake
\* radius for type quake with any other level, the terror radius for type
\* terror, and the fallback radius for every other type.
C3_RadiusLookup ==
    snap.taken =>
      /\ ~snap.active => snap.radius_km = 0
      /\ (snap.active /\ snap.type = "smoke") => snap.radius_km = SMOKE_RADIUS_KM
      /\ (snap.active /\ snap.type = "quake" /\ snap.level = "strong")
           => snap.radius_km = QUAKE_STRONG_RADIUS_KM
      /\ (snap.active /\ snap.type = "quake" /\ snap.level # "strong")
           => snap.radius_km = QUAKE_LIGHT_RADIUS_KM
      /\ (snap.active /\ snap.type = "terror") => snap.radius_km = TERROR_RADIUS_KM
      /\ (snap.active /\ snap.type \notin {"smoke", "quake", "terror"})
           => snap.radius_km = DANGER_RADIUS_KM

C3_Witness ==
    /\ snap.taken /\ snap.active
    /\ snap.type = "quake" /\ snap.level = Null
    /\ snap.radius_km = QUAKE_LIGHT_RADIUS_KM

\* C4: whenever the event is not active, its type, level, latitude,
\* longitude, reporter id and reporter name are all null, after any sequence
\* of sensor reports and chat messages.
C4_InactiveIsCleared ==
    ~LAST_EVENT.active =>
      /\ LAST_EVENT.type = Null /\ LAST_EVENT.level = Null
      /\ LAST_EVENT.lat = NoneC /\ LAST_EVENT.lon = NoneC
      /\ LAST_EVENT.reported_by = Null /\ LAST_EVENT.reported_by_name = Null

\* a close has just run: the chat close command, or a sensor "normal" report
C4_Witness ==
    /\ ~LAST_EVENT.active
    /\ \/ req.op = "telegram" /\ sent # <<>> /\ sent[1].msg = "closed_by_user"
       \/ req.op = "alert" /\ req.type = "normal" /\ resp.status = 200

OpenedHazard ==
    \/ req.op = "alert" /\ resp.status # 401 /\ req.type \in HAZARD_TYPES
    \/ req.op = "telegram" /\ sent # <<>> /\ sent[1].msg = "report_received"

\* C5: right after a hazard event (smoke, quake, terror) is opened, by a
\* sensor report or by the chat unusual-event button, every registered user
\* has the pending flag set and the dashboard puts every one of them in the
\* pending bucket and none in danger or safe.
C5_AllPendingAfterOpen ==
    OpenedHazard =>
      /\ \A c \in Registered(users) : users[c].pending_loc = 1
      /\ LET p == home_page(users, LAST_EVENT)
         IN /\ p.ok /\ p.danger = <<>> /\ p.safe = <<>>
            /\ \A c \in Registered(users) : Occ(p.pending, c) = 1

\* a hazard opened at the stored location of a registered user
C5_Witness ==
    /\ OpenedHazard
    /\ LAST_EVENT.active /\ LAST_EVENT.lat = Num(31000) /\ LAST_EVENT.lon = Lon0
    /\ \E c \in Registered(users) :
         users[c].last_lat = Num(31000) /\ users[c].pending_loc = 1

\* C6: an accepted sensor report of type normal leaves the event fully
\* cleared, clears the pending flag of every registered user, and sends the
\* return-to-normal broadcast to every registered user.
C6_NormalReportClearsAndBroadcasts ==
    (req.op = "alert" /\ req.type = "normal" /\ resp.status # 401) =>
      /\ LAST_EVENT = EventInit
      /\ \A c \in Registered(users) : users[c].pending_loc = 0
      /\ \A c \in Registered(users) :
           \E i \in 1..Len(sent) : sent[i].to = c /\ sent[i].msg = "event_ended"

Broadcasting ==
    \/ req.op = "alert" /\ resp.status # 401
    \/ req.op = "telegram" /\ sent # <<>>
       /\ sent[1].msg \in {"closed_by_user", "request_location"}

\* C7: in a broadcast or a broadcast location request, a failed send does
\* not abort the batch: the send to every registered user is still
\* attempted and the handler completes normally.
C7_FailedSendDoesNotAbortBatch ==
    Broadcasting =>
      /\ \A c \in Registered(users) : \E i \in 1..Len(sent) : sent[i].to = c
      /\ resp.ok

\* C8: the chat webhook answers every update with status 200, whatever
\* happens while it is processed; when an exception was raised the body
\* carries ok = false and an error text.
C8_WebhookAlways200 ==
    req.op = "telegram" =>
      /\ resp.status = 200
      /\ (Raised(sent) \/ req.shape = "not_object")
           => (~resp.ok /\ resp.body = "error")

\* an exception was raised while the update was processed
C8_Witness ==
    /\ req.op = "telegram" /\ resp.status = 200 /\ ~resp.ok
    /\ Raised(sent)

\* C9: with a shared secret configured, a sensor report whose X-SECRET
\* header is missing or different is answered 401, changes neither the event
\* nor any user, and sends nothing.
C9_UnauthorizedChangesNothing ==
    [][(SHARED_SECRET # "" /\ req'.op = "alert" /\ req'.secret # SHARED_SECRET)
         => /\ resp'.status = 401
            /\ LAST_EVENT' = LAST_EVENT
            /\ users' = users
            /\ sent' = <<>>]_vars

\* a rejected report while an event is open and users are pending
C9_Witness ==
    /\ req.op = "alert" /\ req.secret \in {"", "wrong"} /\ resp.status = 401
    /\ LAST_EVENT.active
    /\ \E c \in Registered(users) : users[c].pending_loc = 1

Torn(active, type, level, lat, lon) ==
    ~active /\ (type # Null \/ level # Null \/ lat # NoneC \/ lon # NoneC)

\* C10: a close that runs concurrently with a reader or with an open is
\* atomic: no snapshot a reader returns, and no state the requests end in,
\* has active = false together with a non-null type, level, coordinate or
\* reporter.
C10_CloseIsAtomic ==
    /\ snap.taken => ~Torn(snap.active, snap.type, snap.level, snap.lat, snap.lon)
    /\ ThreadsDone =>
         /\ ~Torn(LAST_EVENT.active, LAST_EVENT.type, LAST_EVENT.level,
                  LAST_EVENT.lat, LAST_EVENT.lon)
         /\ ~LAST_EVENT.active =>
              (LAST_EVENT.reported_by = Null /\ LAST_EVENT.reported_by_name = Null)

\* a message that reached the location branch with well-formed coordinates
LocationShare ==
    req.op = "telegram" /\ req.shape = "message" /\ req.loc.k = "num"

BucketOf(p, c) ==
    IF Occ(p.pending, c) = 1 THEN "pending"
    ELSE IF Occ(p.danger, c) = 1 THEN "danger"
    ELSE IF Occ(p.safe, c) = 1 THEN "safe"
    ELSE "none"

\* C11: a location share that arrives while no event is active records the
\* location of the sender, the dashboard classifies the sender as safe with
\* no distance, and the only message of the request is the no-active-event
\* message to the sender: no danger message, no outside-the-radius message.
C11_ShareWithoutEvent ==
    (LocationShare /\ ~LAST_EVENT.active) =>
      /\ users[req.chat].reg
      /\ users[req.chat].last_lat = req.loc /\ users[req.chat].last_lon = Lon0
      /\ LET p == home_page(users, LAST_EVENT)
         IN /\ BucketOf(p, req.chat) = "safe"
            /\ p.safe[DistOf(p.safe, req.chat)].dist = NoneC
      /\ Len(sent) = 1 /\ sent[1].to = req.chat /\ sent[1].msg = "no_active_event"

\* C12: a user record exists after the first message of a chat, be it a
\* text or a location share; every location share stores the coordinates of
\* the sender and clears the pending flag of the sender; no request removes
\* a user.
C12_RegistryOnFirstContact ==
    [][/\ ((req'.op = "telegram" /\ req'.shape = "message"
             /\ (req'.text # "" \/ req'.loc.k = "num"))
            => users'[req'.chat].reg)
       /\ ((req'.op = "telegram" /\ req'.shape = "message" /\ req'.loc.k = "num")
            => (/\ users'[req'.chat].last_lat = req'.loc
                /\ users'[req'.chat].last_lon = Lon0
                /\ users'[req'.chat].pending_loc = 0))
       /\ \A c \in ChatIds : users[c].reg => users'[c].reg]_vars

\* an accepted sensor report that is not "normal": it opens an event
SensorOpened ==
    req.op = "alert" /\ resp.status # 401 /\ req.type # "normal"

\* C13: after a sensor report opens an event, every field of the event,
\* the description included, is the one the report alone determines: the
\* event equals the one the same report opens on a freshly started server,
\* so nothing written before the open (by a previous event or by an earlier
\* description) is left.
C13_OpenOverwritesAllFields ==
    SensorOpened =>
      \E rq \in AlertRequests \cup ChatAlertRequests :
        /\ alert_type(rq.data) = req.type
        /\ LAST_EVENT = alert_open(EventInit, rq.data)

\* C14: whenever a hazard event (smoke, quake, terror) opens, by a sensor
\* report or by the chat unusual-event button, the opening request sends a
\* location request to every registered user.
C14_OpenRequestsEveryLocation ==
    OpenedHazard =>
      \A c \in Registered(users) :
        \E i \in 1..Len(sent) : sent[i].to = c /\ sent[i].msg = "request_location"

\* C15: non-numeric coordinates never raise: the origin stored for an event
\* is a number or null, never the non-numeric value of a report, so the
\* dashboard always renders and a location share never ends in an exception
\* over the origin.
C15_NonNumericOriginIsNull ==
    /\ LAST_EVENT.lat.k \in {"num", "none"}
    /\ LAST_EVENT.lon.k \in {"num", "none"}
    /\ req.op = "home" => (page.ok /\ resp.status = 200)
    /\ (LocationShare /\ ~Raised(sent)) => resp.ok

\* C16: on a server without BOT_TOKEN every call of telegram_send returns
\* the "missing" result without a request and without an exception, every
\* call of the request is made, and the handler answers and changes the
\* event, the users and the awaiting set exactly as the handler with a
\* token does.
C16_NoTokenSendsAreNoOps ==
    [][BOT_TOKEN = "" =>
        /\ \A i \in 1..Len(sent') : sent'[i].result = "no_token"
        /\ (req'.op = "alert" /\ alert_authorized(SHARED_SECRET, req'.secret))
             => (/\ resp'.status = 200
                 /\ \E rq \in AlertRequests :
                      LET r == alert_result(LAST_EVENT, users, rq.data)
                      IN /\ alert_type(rq.data) = req'.type
                         /\ LAST_EVENT' = r.ev /\ users' = r.us
                         /\ Len(sent') = Len(r.todo))
        /\ req'.op = "telegram"
             => (/\ resp'.status = 200
                 /\ \E in \in StateInputs :
                      LET r == webhook_result(LAST_EVENT, users, PENDING_DESC, in.shape,
                                              in.chat, display_name(in.first), in.text, in.loc)
                      IN /\ in.shape = req'.shape /\ in.chat = req'.chat
                         /\ normalize_command(in.text) = req'.text /\ in.loc = req'.loc
                         /\ LAST_EVENT' = r.ev /\ users' = r.us /\ PENDING_DESC' = r.pd
                         /\ Len(sent') = Len(r.todo)
                         /\ resp'.ok = ~r.exc)]_vars

\* a broadcast to two registered users on a server without BOT_TOKEN
C16_Witness ==
    /\ BOT_TOKEN = ""
    /\ req.op = "alert" /\ resp.status = 200 /\ LAST_EVENT.active
    /\ Len(sent) = 2 /\ sent[1].result = "no_token" /\ sent[2].result = "no_token"

HazardActive(ev) == ev.active /\ ev.type \in HAZARD_TYPES

\* C17: while a hazard event is active, a registered user is classified
\* pending exactly when the user has not shared a location since the event
\* opened, a user who registered after the open included.  Stated over
\* one request: after the request, a registered user is other than pending
\* exactly when the request is a location share of that user, or the user
\* was registered and not pending before it and the request opened no
\* hazard event.
C17_PendingIffNotSharedSinceOpen ==
    [][\A c \in ChatIds :
        (HazardActive(LAST_EVENT') /\ users'[c].reg) =>
          LET opens == \/ (req'.op = "alert" /\ resp'.status # 401
                              /\ req'.type \in HAZARD_TYPES)
                       \/ (req'.op = "telegram" /\ req'.text = BTN_UNUSUAL_EVENT)
              shares == req'.op = "telegram" /\ req'.loc.k = "num" /\ req'.chat = c
              shared == IF opens THEN FALSE
                        ELSE IF shares THEN TRUE
                        ELSE users[c].reg /\ users[c].pending_loc = 0
              bucket == classify_row(users'[c], LAST_EVENT',
                                     current_radius_km(LAST_EVENT')).bucket
          IN (bucket = "pending") <=> ~shared]_vars

\* C18: a location share changes the origin of the event only when the
\* event is active, of type terror, without an origin, and reported by the
\* sender, and then it sets the origin to the shared coordinates; every
\* other location share leaves every field of the event as it was; and an
\* origin that is set changes only in a request that closes the event or
\* opens a new one.
C18_OriginSetOnlyByReporter ==
    [][/\ (req'.op = "telegram" /\ req'.loc.k # "none")
            => IF /\ LAST_EVENT.active /\ LAST_EVENT.type = "terror"
                  /\ LAST_EVENT.lat.k = "none" /\ LAST_EVENT.lon.k = "none"
                  /\ LAST_EVENT.reported_by = req'.chat
                  /\ req'.loc.k = "num"
               THEN LAST_EVENT' = [LAST_EVENT EXCEPT !.lat = req'.loc, !.lon = Lon0]
               ELSE LAST_EVENT' = LAST_EVENT
       /\ (/\ (LAST_EVENT.lat.k # "none" \/ LAST_EVENT.lon.k # "none")
           /\ <<LAST_EVENT'.lat, LAST_EVENT'.lon>> # <<LAST_EVENT.lat, LAST_EVENT.lon>>)
            => \/ (req'.op = "alert" /\ resp'.status # 401)
               \/ (req'.op = "telegram"
                     /\ req'.text \in {BTN_END_EVENT, BTN_UNUSUAL_EVENT})]_vars

\* the reporter of a chat-opened event has just set its origin, with a
\* second registered user there to set it instead
C18_Witness ==
    /\ LocationShare /\ LAST_EVENT.type = "terror"
    /\ LAST_EVENT.reported_by = req.chat /\ LAST_EVENT.lat = req.loc
    /\ \E i \in 1..Len(sent) : sent[i].msg = "origin_received"
    /\ Cardinality(Registered(users)) = 2

\* C19: an accepted sensor report whose type is neither normal nor a hazard
\* type (a report without a type or with a malformed body is of type
\* unknown) leaves an active event, sends the informational broadcast to
\* every registered user and no location request, and leaves no registered
\* user pending.
C19_InformationalOpen ==
    (SensorOpened /\ req.type \notin HAZARD_TYPES) =>
      /\ LAST_EVENT.active
      /\ \A c \in Registered(users) :
           /\ users[c].pending_loc = 0
           /\ \E i \in 1..Len(sent) : sent[i].to = c /\ sent[i].msg = "system_update"
      /\ \A i \in 1..Len(sent) : sent[i].msg # "request_location"

\* C20: the message a location share is answered with carries safety text
\* only when it is the inside-the-danger-zone message, sent to a sender
\* within the radius of the event: the quake text for a quake event, the
\* smoke text for a smoke event, no text for any other type; every other
\* message of the request carries none.
C20_GuidanceOnlyInDanger ==
    LocationShare =>
      \A i \in 1..Len(sent) :
        /\ sent[i].extra # "" => sent[i].msg = "danger"
        /\ sent[i].msg = "danger" =>
             /\ sent[i].to = req.chat
             /\ LAST_EVENT.active /\ FloatOk(LAST_EVENT.lat) /\ FloatOk(LAST_EVENT.lon)
             /\ haversine_km(req.loc.v, Lon0.v, LAST_EVENT.lat.v, LAST_EVENT.lon.v)
                   <= current_radius_km(LAST_EVENT)
             /\ sent[i].extra = (IF LAST_EVENT.type = "quake" THEN "QUAKE_SAFETY_TEXT"
                                 ELSE IF LAST_EVENT.type = "smoke" THEN "SMOKE_SAFETY_TEXT"
                                 ELSE "")
        /\ sent[i].msg = "outside" =>
             haversine_km(req.loc.v, Lon0.v, LAST_EVENT.lat.v, LAST_EVENT.lon.v)
               > current_radius_km(LAST_EVENT)

\* a sender inside the radius of a quake
C20_Witness ==
    /\ LocationShare /\ LAST_EVENT.type = "quake"
    /\ Len(sent) = 1 /\ sent[1].msg = "danger" /\ sent[1].extra = "QUAKE_SAFETY_TEXT"

\* C21: in every state reached by sensor reports and chat messages, each
\* handler run to completion, if no event is active then no registered
\* user has the pending flag set.
C21_NoPendingWithoutEvent ==
    ~LAST_EVENT.active => \A c \in Registered(users) : users[c].pending_loc = 0

\* an event was closed over two registered users, one of whom never shared
\* a location while it was open
C21_Witness ==
    /\ ~LAST_EVENT.active
    /\ \/ req.op = "telegram" /\ req.text = BTN_END_EVENT
       \/ req.op = "alert" /\ req.type = "normal" /\ resp.status # 401
    /\ Cardinality(Registered(users)) = 2
    /\ \E c \in Registered(users) : users[c].last_loc_ts = Null
    /\ \E c \in Registered(users) : users[c].last_loc_ts # Null

\* the first send of the origin-setting share is the location request of
\* its broadcast; every other location share starts with its own answer
OriginShare ==
    LocationShare /\ sent # <<>> /\ sent[1].msg = "request_location"

\* C22: for a location share by a registered user that is not the
\* origin-setting share of the reporter, the sender is sent the
\* inside-the-danger-zone message exactly when the dashboard computed right
\* after it puts the sender in the danger bucket; otherwise the dashboard
\* puts the sender in the safe bucket, and never in the pending bucket.
C22_ShareAgreesWithDashboard ==
    (LocationShare /\ users[req.chat].reg /\ ~OriginShare) =>
      LET p == home_page(users, LAST_EVENT)
          told == \E i \in 1..Len(sent) : sent[i].to = req.chat /\ sent[i].msg = "danger"
      IN /\ told <=> BucketOf(p, req.chat) = "danger"
         /\ ~told => BucketOf(p, req.chat) = "safe"
         /\ BucketOf(p, req.chat) # "pending"

\* C23: the next non-empty text of a user who is awaiting a description is
\* stored as the description of the event and takes the user out of the
\* awaiting set, and it is not run as a command: whatever the text, the
\* start, help, close and unusual-event commands included, the active
\* flag, the type, the level, the origin, the reporter and every pending
\* flag stay as they were.
C23_AwaitedTextIsDescription ==
    [][(/\ req'.op = "telegram" /\ req'.shape = "message"
        /\ req'.chat \in PENDING_DESC /\ req'.raw # "")
        => (/\ LAST_EVENT' = [LAST_EVENT EXCEPT !.description = req'.raw]
            /\ PENDING_DESC' = PENDING_DESC \ {req'.chat}
            /\ \A c \in ChatIds : users'[c].pending_loc = users[c].pending_loc)]_vars

\* C24: in every state reached by sensor reports and chat messages, if no
\* event is active then the description of the event is null: a
\* description sent over chat is stored only while an event is active.
C24_NoDescriptionWithoutEvent ==
    ~LAST_EVENT.active => LAST_EVENT.description = Null

====
